---- MODULE Spec2Model ----
(***************************************************************************)
(* Vortex-MacroPad host software: the media timeline estimator             *)
(* (get_media_info in Software.py) and the telemetry loop that frames its  *)
(* samples.                                                                *)
(*                                                                         *)
(* Time is counted in clock units of 1/TicksPerSec second, so that         *)
(* int(now - base_time) and int(position.total_seconds()) truncate as in   *)
(* the source.  Text is a sequence of one-character strings, so that       *)
(* formatting and framing are computed character by character.             *)
(***************************************************************************)
EXTENDS Integers, Sequences, FiniteSets, TLC

\* ------------------------------------------------------------------ bounds
TicksPerSec == 2        \* clock resolution: units per second
Horizon     == 12       \* clock units of wall-clock time explored after start
MaxDt       == 2        \* longest gap between two calls, in clock units
MaxPosition == 4        \* transport positions 1..MaxPosition seconds are reported
MainHorizon == 2        \* clock units explored by the telemetry loop
MaxQueue    == 2        \* volume values pending in the queue
MaxFrames   == 5        \* frames start_mirroring sends before the exploration stops
MaxRx       == 3        \* bytes of the macropad the host has not read yet
MaxPorts    == 3        \* serial ports comports() lists
MaxSeconds  == 6005     \* longest time a label is formatted of, in seconds

\* --------------------------------------------------------------- constants
REFRESH_SECONDS == 3    \* "now - ... > 3"
DRIFT_SECONDS   == 2    \* "abs(real_position - simulated) > 2"
PLAYING_STATUS  == 4    \* "playback.playback_status == 4"
STOPPED_STATUS  == 3    \* two of the session's other statuses
PAUSED_STATUS   == 5

None  == "None"
NoPosition == -1        \* no position was reported to the call
NoSample   == -1        \* no sample was taken from the timeline yet
\* time.time() at the first call: seconds since 1970, far above any position
Epoch == 1000000 * TicksPerSec

\* -------------------------------------------------------------------- text
DigitChar == <<"0", "1", "2", "3", "4", "5", "6", "7", "8", "9">>

RECURSIVE Str(_)
\* str(n) of a non-negative integer, as f"{n}" renders it
Str(n) == IF n < 10 THEN <<DigitChar[n + 1]>>
          ELSE Str(n \div 10) \o <<DigitChar[(n % 10) + 1]>>

\* f"{n}" in the place of f"{n:02d}"
Pad2_NoPad(n) == Str(n)

\* f"{n:02d}" of a non-negative integer
Pad2(n) == IF n < 10 THEN <<"0">> \o Str(n) ELSE Str(n)

\* f"{s // 60}:{s % 60:02d}"
Label(s) == Str(s \div 60) \o <<":">> \o Pad2(s % 60)

NoMedia    == <<"N", "o", " ", "M", "e", "d", "i", "a">>
SystemIdle == <<"S", "y", "s", "t", "e", "m", " ", "I", "d", "l", "e">>
NoTitle    == <<"N", "o", " ", "T", "i", "t", "l", "e">>
NoArtist   == <<"N", "o", " ", "A", "r", "t", "i", "s", "t">>
ZeroLabel  == <<"0", ":", "0", "0">>

\* the tuple returned after the except clause
Fallback == <<NoMedia, SystemIdle, ZeroLabel, ZeroLabel>>

\* ------------------------------------------------------------------- state
VARIABLES
    now,                  \* time.time() read by the last call, in clock units
    _media_session,       \* cached session handle, or None
    _media_last_refresh,  \* time of the last successful session lookup
    _last_timeline,       \* the timeline record
    ret,                  \* the tuple the last call returned
    call,                 \* what the last call did (its locals)
    shown,                \* elapsed seconds of the last sample taken from the
                          \* timeline (history), NoSample before the first
    levels,               \* the shared level cells: [left, right]
    vol_queue,            \* the volume worker's queue
    last_pct,             \* the volume worker's last_pct
    current_vol,          \* the main loop's current_vol
    written,              \* the bytes of the main loop's last ser.write
    audio,                \* the capture thread: its position and locals
    levels_lock,          \* who holds the lock of the level cells
    main_loop,            \* the main loop: its position and locals l, r
    worker_pc,            \* the volume worker's position
    mirror,               \* Mirroring.py: start_mirroring's position and counts
    device,               \* the macropad on the mirroring link
    discovery             \* find_port: the ports, its position and result

estimator == <<now, _media_session, _media_last_refresh, _last_timeline, ret,
               call, shown>>
telemetry == <<levels, vol_queue, last_pct, current_vol, written>>
threads   == <<audio, levels_lock, main_loop, worker_pc>>
mirroring == <<mirror, device>>
vars == <<estimator, telemetry, threads, mirroring, discovery>>

Session == "session"

InitTimeline ==
    [base_position |-> 0, base_time |-> 0, duration |-> 0, playing |-> FALSE,
     title |-> NoMedia, artist |-> SystemIdle]

NoCall ==
    [made |-> FALSE, failed |-> FALSE, propagated |-> FALSE, lookup |-> FALSE,
     query |-> FALSE, reported |-> NoPosition, status |-> 0, elapsed |-> 0]

\* ------------------------------------------------------- get_media_info
\* "_media_session is None or now - _media_last_refresh > 3"
SessionLookupDue(session, last_refresh, t) ==
    session = None \/ t - last_refresh > REFRESH_SECONDS * TicksPerSec

\* int(now - base_time): whole seconds, truncated
WholeSeconds(t, base_time) == (t - base_time) \div TicksPerSec

\* simulated = base_position (+ int(now - base_time) if playing)
Simulated(tl, t) ==
    IF tl.playing THEN tl.base_position + WholeSeconds(t, tl.base_time)
    ELSE tl.base_position

\* "now - _last_timeline['base_time'] > 3"
TimelineDue(tl, t) == t - tl.base_time > REFRESH_SECONDS * TicksPerSec

\* "x or default" on a string
OrDefault(s, default) == IF s = <<>> THEN default ELSE s

\* "timeline and timeline.position": a zero timedelta is falsy
HasPosition(timeline) == timeline.present /\ timeline.position # 0

\* "timeline and timeline.max_seek_time"
HasMaxSeek(timeline) == timeline.present /\ timeline.max_seek_time # 0

\* int(timedelta.total_seconds())
TotalSeconds(d) == d \div TicksPerSec

\* Resync without the smooth branch: every real position is taken
Resync_AlwaysSnap(tl, simulated, real_position, t) ==
    [tl EXCEPT !.base_position = real_position, !.base_time = t]

\* the resync of base_position / base_time from a real position
Resync(tl, simulated, real_position, t) ==
    IF (IF real_position >= simulated THEN real_position - simulated
        ELSE simulated - real_position) > DRIFT_SECONDS
    THEN [tl EXCEPT !.base_position = real_position, !.base_time = t]
    ELSE [tl EXCEPT !.base_position = simulated, !.base_time = t]

\* IsPlaying as "not paused"
IsPlaying_NotPaused(status) == status # PAUSED_STATUS

\* playback.playback_status == 4
IsPlaying(status) == status = PLAYING_STATUS

\* the body of "if now - base_time > 3", after the three session queries
RefreshTimeline(tl, simulated, env, t) ==
    LET tl1 == [tl EXCEPT !.title = OrDefault(env.title, NoTitle),
                          !.artist = OrDefault(env.artist, NoArtist)]
        tl2 == IF HasPosition(env.timeline)
               THEN Resync(tl1, simulated, TotalSeconds(env.timeline.position), t)
               ELSE tl1
        tl3 == IF HasMaxSeek(env.timeline)
               THEN [tl2 EXCEPT !.duration = TotalSeconds(env.timeline.max_seek_time)]
               ELSE tl2
    IN  [tl3 EXCEPT !.playing = IsPlaying(env.status)]

\* SmoothClock with the seconds since base_time subtracted
SmoothClock_Backwards(tl, t) ==
    IF tl.playing
    THEN (IF tl.base_position >= WholeSeconds(t, tl.base_time)
          THEN tl.base_position - WholeSeconds(t, tl.base_time) ELSE 0)
    ELSE tl.base_position

\* SmoothClock that advances whether or not the session is playing
SmoothClock_IgnoresPlaying(tl, t) ==
    tl.base_position + WholeSeconds(t, tl.base_time)

\* the smooth local clock
SmoothClock(tl, t) ==
    IF tl.playing THEN tl.base_position + WholeSeconds(t, tl.base_time)
    ELSE tl.base_position

\* the tuple returned by the try block
Sample(tl, t) ==
    <<tl.title, tl.artist, Label(SmoothClock(tl, t)), Label(tl.duration)>>

LookupFailures == {"request_async", "get_current_session"}
QueryFailures  == {"try_get_media_properties_async", "get_timeline_properties",
                   "get_playback_info"}

\* an except clause that catches the session lookup's errors only
Caught_LookupOnly(exc) == exc \in LookupFailures

\* "except:" catches whatever was raised
Caught(exc) == TRUE

\* One call at time t against the collaborator answers env.  The result
\* holds the globals after the call, the returned tuple and the call's locals.
\* prev is what the caller holds if the call raises instead of returning.
get_media_info(session, last_refresh, tl, t, env, prev) ==
    LET due        == SessionLookupDue(session, last_refresh, t)
        failLookup == due /\ env.fail \in LookupFailures
        session1   == IF due THEN env.current ELSE session
        refresh1   == IF due THEN t ELSE last_refresh
        simulated  == Simulated(tl, t)
        query      == session1 # None /\ TimelineDue(tl, t)
        failQuery  == query /\ env.fail \in QueryFailures
        tl1        == IF query THEN RefreshTimeline(tl, simulated, env, t) ELSE tl
        locals     == [made |-> TRUE, failed |-> FALSE, propagated |-> FALSE,
                       lookup |-> due, query |-> FALSE,
                       reported |-> NoPosition, status |-> 0, elapsed |-> 0]
    IN  IF failLookup
        THEN [session |-> session, last_refresh |-> last_refresh, tl |-> tl,
              ret |-> IF Caught(env.fail) THEN Fallback ELSE prev,
              call |-> [locals EXCEPT !.failed = TRUE,
                                      !.propagated = ~Caught(env.fail)]]
        ELSE IF failQuery
        THEN [session |-> session1, last_refresh |-> refresh1, tl |-> tl,
              ret |-> IF Caught(env.fail) THEN Fallback ELSE prev,
              call |-> [locals EXCEPT !.failed = TRUE, !.query = TRUE,
                                      !.propagated = ~Caught(env.fail)]]
        ELSE [session |-> session1, last_refresh |-> refresh1, tl |-> tl1,
              ret |-> Sample(tl1, t),
              call |-> [locals EXCEPT
                          !.query = query,
                          !.status = IF query THEN env.status ELSE 0,
                          !.reported = IF query /\ env.timeline.present
                                       THEN env.timeline.position
                                       ELSE NoPosition,
                          !.elapsed = SmoothClock(tl1, t)]]

\* ------------------------------------------------- collaborator answers
\* what the session says of the track: title, artist, max_seek_time
Untitled == [title |-> <<>>, artist |-> <<>>, max_seek_time |-> 0]
Song     == [title |-> <<"S", "o", "n", "g">>, artist |-> <<"B", "a", "n", "d">>,
             max_seek_time |-> 200 * TicksPerSec]
Tracks   == {Untitled, Song}

\* reported positions, in clock units: zero, a fraction of a second, whole
\* seconds, and the position of the end-to-end example
ExamplePosition == 10 * TicksPerSec
Positions == {0, 1} \cup {s * TicksPerSec : s \in 1..MaxPosition}
                    \cup {ExamplePosition}
Statuses  == {STOPPED_STATUS, PLAYING_STATUS, PAUSED_STATUS}

\* get_timeline_properties() returns None, or a timeline
NoTimeline == [present |-> FALSE, position |-> 0, max_seek_time |-> 0]
TimelineOf(position, track) ==
    [present |-> TRUE, position |-> position, max_seek_time |-> track.max_seek_time]

QuietEnv == [fail |-> "none", current |-> Session, title |-> <<>>,
             artist |-> <<>>, timeline |-> NoTimeline, status |-> PAUSED_STATUS]

\* answers of a session that is present and answers every query
AnswerEnvs(tracks, positions, statuses) ==
    {[QuietEnv EXCEPT !.title = k.title, !.artist = k.artist,
                      !.timeline = TimelineOf(p, k), !.status = s] :
        k \in tracks, p \in positions, s \in statuses}
    \cup {[QuietEnv EXCEPT !.status = s] : s \in statuses}

\* a collaborator call raises
FailEnvs == {[QuietEnv EXCEPT !.fail = f] : f \in LookupFailures \cup QueryFailures}

\* get_current_session() returns None
NoSessionEnvs == {[QuietEnv EXCEPT !.current = None]}

\* The answers a call at time t can consume: only the collaborator calls
\* the call makes have an answer.
Envs(answers, session, last_refresh, tl, t) ==
    LET due  == SessionLookupDue(session, last_refresh, t)
        tdue == TimelineDue(tl, t)
    IN  (IF due THEN NoSessionEnvs \cup {e \in FailEnvs : e.fail \in LookupFailures}
         ELSE {})
        \cup (IF tdue /\ (due \/ session # None)
             THEN answers \cup {e \in FailEnvs : e.fail \in QueryFailures}
             ELSE {QuietEnv})

\* ------------------------------------------------------------ telemetry
\* the level of a block peak: int(np.clip(peak * 18.0, 0, 8)); peaks are
\* counted in units of 1/PeakUnit
PeakUnit == 36
GAIN     == 18
MAX_LEVEL == 8
\* Level without the clip
Level_NoClip(peak) == (peak * GAIN) \div PeakUnit

Level(peak) ==
    IF peak * GAIN >= MAX_LEVEL * PeakUnit THEN MAX_LEVEL
    ELSE (peak * GAIN) \div PeakUnit

\* pct = int(round(scalar * 100)); scalars are counted in thousandths, none
\* of them half-way between two percents
Pct(scalar) == (scalar + 5) \div 10

RECURSIVE Drain(_, _)
\* "while not vol_queue.empty(): current_vol = vol_queue.get()"
Drain(q, cur) == IF q = <<>> THEN cur ELSE Drain(Tail(q), Head(q))

\* the UTF-8 bytes of a character
Utf8(c) ==
    CASE c = "\n" -> <<10>>  [] c = " " -> <<32>>  [] c = ":" -> <<58>>
      [] c = "|" -> <<124>>
      [] c = "0" -> <<48>>   [] c = "1" -> <<49>>  [] c = "2" -> <<50>>
      [] c = "3" -> <<51>>   [] c = "4" -> <<52>>  [] c = "5" -> <<53>>
      [] c = "6" -> <<54>>   [] c = "7" -> <<55>>  [] c = "8" -> <<56>>
      [] c = "9" -> <<57>>
      [] c = "A" -> <<65>>   [] c = "B" -> <<66>>  [] c = "E" -> <<69>>
      [] c = "I" -> <<73>>   [] c = "M" -> <<77>>  [] c = "N" -> <<78>>
      [] c = "S" -> <<83>>   [] c = "T" -> <<84>>
      [] c = "a" -> <<97>>   [] c = "d" -> <<100>> [] c = "e" -> <<101>>
      [] c = "g" -> <<103>>  [] c = "i" -> <<105>> [] c = "l" -> <<108>>
      [] c = "m" -> <<109>>  [] c = "n" -> <<110>> [] c = "o" -> <<111>>
      [] c = "r" -> <<114>>  [] c = "s" -> <<115>> [] c = "t" -> <<116>>
      [] c = "y" -> <<121>>
      [] c = "é" -> <<195, 169>>

RECURSIVE Encode(_)
\* payload.encode("utf-8")
Encode(text) == IF text = <<>> THEN <<>> ELSE Utf8(Head(text)) \o Encode(Tail(text))

\* f"MET:{title}|{artist}|{l}|{r}|{current_vol}|{elapsed}|{total}\n"
Payload(title, artist, l, r, vol, elapsed, total) ==
    <<"M", "E", "T", ":">> \o title \o <<"|">> \o artist \o <<"|">>
      \o Str(l) \o <<"|">> \o Str(r) \o <<"|">> \o Str(vol) \o <<"|">>
      \o elapsed \o <<"|">> \o total \o <<"\n">>

\* ------------------------------------------------------- Mirroring.py
WIDTH      == 128
HEIGHT     == 64
START_BYTE == 2
ACK_BYTE   == 6
\* ser.read(1) returned b"" (the 0.1 s timeout passed)
NoByte     == -1
\* a byte of the macropad that is no acknowledgement
NOISE_BYTE == 21

\* START_BYTE + img.tobytes(): the start byte and the length of the bitmap of
\* a WIDTH x HEIGHT image of mode "1" (each row packed into WIDTH / 8 bytes)
Frame == [start |-> START_BYTE, bitmap |-> ((WIDTH + 7) \div 8) * HEIGHT]

\* ------------------------------------------------------ initial values
\* the capture thread before it picked a device
InitAudio == [pc |-> "pick", l_peak |-> 0, r_peak |-> 0, l_val |-> 0, r_val |-> 0]

\* threading.Lock(): not held
Free == "free"

\* the main loop at the top of "while True"
InitMainLoop == [pc |-> "drain", l |-> 0, r |-> 0]

\* start_mirroring before it opened the port
InitMirror == [pc |-> "idle", frames |-> 0, acks |-> 0, byte |-> NoByte,
               wire |-> <<>>, error |-> None]

\* the macropad: the bytes it sent that the host has not read, the frames
\* sent to it that it has not taken, the frames it received, the
\* acknowledgements it emitted
InitDevice == [rx |-> <<>>, pending |-> 0, received |-> 0, emitted |-> 0]

\* find_port before main calls it
InitDiscovery == [pc |-> "idle", ports |-> <<>>, i |-> 0, tried |-> <<>>,
                  open |-> {}, result |-> None]

\* ------------------------------------------------------------ behaviour
\* everything but the timeline record at the start of the program
InitButTimeline ==
    /\ now = Epoch
    /\ _media_session = None
    /\ _media_last_refresh = 0
    /\ ret = Fallback
    /\ call = NoCall
    /\ shown = NoSample
    /\ levels = [left |-> 0, right |-> 0]
    /\ vol_queue = <<>>
    /\ last_pct = -1
    /\ current_vol = 50
    /\ written = <<>>
    /\ audio = InitAudio
    /\ levels_lock = Free
    /\ main_loop = InitMainLoop
    /\ worker_pc = "poll"
    /\ mirror = InitMirror
    /\ device = InitDevice
    /\ discovery = InitDiscovery

Init ==
    /\ _last_timeline = InitTimeline
    /\ InitButTimeline

\* the time of the next call, dt clock units after the previous one
NextTime(dt) == IF call.made THEN now + dt ELSE now

\* one call of get_media_info at time t; r is its result
Await(t, r) ==
    /\ now' = t
    /\ _media_session' = r.session
    /\ _media_last_refresh' = r.last_refresh
    /\ _last_timeline' = r.tl
    /\ ret' = r.ret
    /\ call' = r.call
    /\ shown' = IF r.call.failed THEN shown ELSE r.call.elapsed

\* the estimator alone: a caller awaits get_media_info over and over
Call(dt, env) ==
    /\ NextTime(dt) <= Epoch + Horizon
    /\ \E r \in {get_media_info(_media_session, _media_last_refresh,
                                _last_timeline, NextTime(dt), env, ret)} :
          Await(NextTime(dt), r)
    /\ UNCHANGED <<telemetry, threads, mirroring, discovery>>

Next ==
    \E dt \in 1..MaxDt :
        \E env \in Envs(AnswerEnvs(Tracks, Positions, Statuses), _media_session,
                        _media_last_refresh, _last_timeline, NextTime(dt)) :
            Call(dt, env)

Spec == Init /\ [][Next]_vars

\* --------------------------------------------------- the telemetry loop
\* tracks whose texts hold the separator, a newline, a two-byte character
Piped == [title |-> <<"A", "|", "B">>, artist |-> <<"B", "a", "n", "d", "\n">>,
          max_seek_time |-> 65 * TicksPerSec]
Accented == [title |-> <<"é">>, artist |-> <<>>, max_seek_time |-> 0]
MainTracks    == {Song, Piped, Accented}
MainPositions == {3 * TicksPerSec}
MainStatuses  == {PLAYING_STATUS}

\* stereo blocks, as (left peak, right peak): silence, full scale on one
\* side, and peaks just below and exactly at 8/18
Blocks  == {<<0, 0>>, <<7, PeakUnit>>, <<PeakUnit, 7>>,
            <<(MAX_LEVEL * PeakUnit) \div GAIN - 1, (MAX_LEVEL * PeakUnit) \div GAIN>>}
\* master volume scalars, in thousandths
Scalars == {0, 74, 1000}

\* one iteration of "while True" in main, after the port was found
MainTick(dt, env) ==
    /\ NextTime(dt) <= Epoch + MainHorizon
    /\ \E r \in {get_media_info(_media_session, _media_last_refresh,
                                _last_timeline, NextTime(dt), env, ret)} :
          /\ Await(NextTime(dt), r)
          /\ current_vol' = Drain(vol_queue, current_vol)
          /\ vol_queue' = <<>>
          /\ written' = Encode(Payload(r.ret[1], r.ret[2], levels.left,
                                       levels.right, Drain(vol_queue, current_vol),
                                       r.ret[3], r.ret[4]))
    /\ UNCHANGED <<levels, last_pct, threads, mirroring, discovery>>

\* the locals of the capture thread after it recorded a block
Recorded(block) ==
    [pc |-> "recorded", l_peak |-> block[1], r_peak |-> block[2],
     l_val |-> Level(block[1]), r_val |-> Level(block[2])]

\* the capture thread records one block and stores its levels
AudioBlock(block) ==
    /\ audio' = Recorded(block)
    /\ levels' = [left |-> Recorded(block).l_val, right |-> Recorded(block).r_val]
    /\ UNCHANGED <<estimator, vol_queue, last_pct, current_vol, written>>
    /\ UNCHANGED <<levels_lock, main_loop, worker_pc, mirroring, discovery>>

\* one round of the volume worker's loop
VolumePoll(scalar) ==
    /\ Pct(scalar) # last_pct
    /\ Len(vol_queue) < MaxQueue
    /\ vol_queue' = Append(vol_queue, Pct(scalar))
    /\ last_pct' = Pct(scalar)
    /\ UNCHANGED <<estimator, levels, current_vol, written>>
    /\ UNCHANGED <<threads, mirroring, discovery>>

NextMain ==
    \/ \E dt \in 1..MaxDt :
         \E env \in Envs(AnswerEnvs(MainTracks, MainPositions, MainStatuses),
                         _media_session, _media_last_refresh, _last_timeline,
                         NextTime(dt)) :
             MainTick(dt, env)
    \/ \E block \in Blocks : AudioBlock(block)
    \/ \E scalar \in Scalars : VolumePoll(scalar)

SpecMain == Init /\ [][NextMain]_vars

\* ------------------------------------------------ vocabulary of the claims
Abs(x) == IF x >= 0 THEN x ELSE -x

Sec(ticks) == ticks \div TicksPerSec

\* the call that just ended returned a sample of the timeline
Sampled == call.made /\ ~call.failed

\* the session reported a position to the call that just ended
PositionReported == Sampled /\ call.query /\ call.reported # NoPosition

\* the call that just ended took the reported position (it was not falsy)
PositionObtained == PositionReported /\ call.reported # 0

\* the smooth clock of the state before a step, read at the time of the step
SimulatedBefore ==
    _last_timeline.base_position
      + (IF _last_timeline.playing
         THEN Sec(now' - _last_timeline.base_time) ELSE 0)

\* the resync point did not move in a step
BaseUnchanged ==
    /\ _last_timeline'.base_position = _last_timeline.base_position
    /\ _last_timeline'.base_time = _last_timeline.base_time

Estimator == <<_media_session, _media_last_refresh, _last_timeline>>

\* --------------------------------------------------------------------- C1
\* C1 (as claimed): whenever a refresh is reported a position, any integer
\* >= 0, that differs from the simulated clock by more than 2 seconds, the
\* same call returns elapsed = the real position and sets base_position to
\* it and base_time to now.
C1_SnapEveryPosition ==
    [][ (PositionReported' /\ Abs(Sec(call'.reported) - SimulatedBefore) > DRIFT_SECONDS)
        => /\ call'.elapsed = Sec(call'.reported)
           /\ ret'[3] = Label(Sec(call'.reported))
           /\ _last_timeline'.base_position = Sec(call'.reported)
           /\ _last_timeline'.base_time = now' ]_vars

C3_ContinuityEveryPosition ==
    [][ (PositionReported' /\ Abs(Sec(call'.reported) - SimulatedBefore) <= DRIFT_SECONDS)
        => /\ call'.elapsed = SimulatedBefore
           /\ ret'[3] = Label(SimulatedBefore)
           /\ _last_timeline'.base_position = SimulatedBefore
           /\ _last_timeline'.base_time = now' ]_vars

\* The same for the positions the code takes, those that are not exactly
\* zero: there the resync is continuous.
C3_Continuity ==
    [][ (PositionObtained' /\ Abs(Sec(call'.reported) - SimulatedBefore) <= DRIFT_SECONDS)
        => /\ call'.elapsed = SimulatedBefore
           /\ ret'[3] = Label(SimulatedBefore)
           /\ _last_timeline'.base_position = SimulatedBefore
           /\ _last_timeline'.base_time = now' ]_vars

\* a drift of two seconds was absorbed while the clock was running
C3_Witness ==
    /\ PositionObtained /\ _last_timeline.base_time = now
    /\ _last_timeline.base_position = 6 /\ Sec(call.reported) = 4
    /\ call.elapsed = 6

\* --------------------------------------------------------------------- C4
\* C4: a call in which a collaborator call raised returns exactly
\* ("No Media", "System Idle", "0:00", "0:00") and raises nothing.
C4_FailureFallback ==
    (call.made /\ call.failed)
        => /\ ~call.propagated
           /\ ret = <<NoMedia, SystemIdle, <<"0", ":", "0", "0">>, <<"0", ":", "0", "0">>>>

\* a timeline query raised although the timeline holds a track
C4_Witness ==
    /\ call.failed /\ call.query /\ ret = Fallback
    /\ _last_timeline.title # NoMedia /\ _last_timeline.base_position > 0

\* --------------------------------------------------------------------- C5
\* C5 (as claimed): a call in which a collaborator call raised leaves the
\* whole estimator state (timeline record, cached session handle, lookup
\* timestamp) as it was before the call.
C5_FailureLeavesState ==
    [][ call'.failed => Estimator' = Estimator ]_vars

\* --------------------------------------------------------------------- C6
\* C6 (as claimed): whenever get_current_session yields None the call
\* returns the idle tuple, in every reachable state.
C6_NoSessionIdle ==
    (Sampled /\ call.lookup /\ _media_session = None) => ret = Fallback

\* --------------------------------------------------------------------- C7
\* C7 (as claimed): a lookup or query happens only when more than 3 seconds
\* passed since the previous one of its kind, so two consecutive calls less
\* than 3 seconds apart never both look the session up, nor both query the
\* timeline.
C7_RateLimited ==
    [][ (call.made /\ now' - now <= REFRESH_SECONDS * TicksPerSec)
        => /\ ~(call.lookup /\ call'.lookup)
           /\ ~(call.query /\ call'.query) ]_vars

\* --------------------------------------------------------------------- C8
\* C8: every sample that does not fail shows base_position plus the whole
\* seconds since base_time when playing, base_position when not, never
\* negative; and 2 seconds after a resync to position 10 with playing = true
\* and duration 200 the sample is "0:12" of "3:20".
C8_ElapsedFormula ==
    Sampled =>
        /\ now >= _last_timeline.base_time
        /\ call.elapsed =
              _last_timeline.base_position
                + (IF _last_timeline.playing
                   THEN Sec(now - _last_timeline.base_time) ELSE 0)
        /\ call.elapsed >= 0
        /\ ret[3] = Label(call.elapsed)
        /\ ret[4] = Label(_last_timeline.duration)
        /\ (/\ _last_timeline.base_position = 10
            /\ _last_timeline.playing
            /\ _last_timeline.duration = 200
            /\ now = _last_timeline.base_time + 2 * TicksPerSec)
           => /\ ret[3] = <<"0", ":", "1", "2">>
              /\ ret[4] = <<"3", ":", "2", "0">>

\* the end-to-end example: the sample 2 seconds after the resync to 10
C8_Witness ==
    /\ Sampled /\ ~call.query
    /\ _last_timeline.base_position = 10 /\ _last_timeline.playing
    /\ _last_timeline.duration = 200
    /\ now = _last_timeline.base_time + 2 * TicksPerSec
    /\ ret[3] = <<"0", ":", "1", "2">>

\* --------------------------------------------------------------------- C9
\* a refresh set playing exactly when the status it was reported is 4
C9_PlayingFromStatus ==
    (Sampled' /\ call'.query)
        => (_last_timeline'.playing <=> call'.status = 4)

\* every refresh of the step reported a position within 2 of base_position
C9_SmallDrift ==
    call'.query =>
        /\ call'.reported # NoPosition
        /\ Abs(Sec(call'.reported) - _last_timeline.base_position) <= DRIFT_SECONDS

RECURSIVE Count(_, _)
\* how many times byte b occurs in the byte sequence bs
Count(bs, b) ==
    IF bs = <<>> THEN 0
    ELSE (IF Head(bs) = b THEN 1 ELSE 0) + Count(Tail(bs), b)

\* C10 (as claimed): every payload the main loop writes begins with "MET:",
\* has exactly seven '|'-separated fields and exactly one newline, its last
\* byte, whatever title and artist the session reports.
C10_Framing ==
    written # <<>> =>
        /\ Len(written) > 4
        /\ SubSeq(written, 1, 4) = <<77, 69, 84, 58>>
        /\ Count(written, 124) = 6
        /\ Count(written, 10) = 1
        /\ written[Len(written)] = 10

\* -------------------------------------------------------------------- C11
RECURSIVE Number(_, _)
\* the number the ASCII digits ds spell after acc, -1 if they are not digits
Number(ds, acc) ==
    IF ds = <<>> THEN acc
    ELSE IF Head(ds) \in 48..57 THEN Number(Tail(ds), 10 * acc + Head(ds) - 48)
    ELSE -1

\* where the "|" bytes of the last written line are
Bars == {i \in 1..Len(written) : written[i] = 124}

\* the k-th "|" of the last written line, counted from its end
BarFromEnd(k) == CHOOSE i \in Bars : Cardinality({j \in Bars : j > i}) = k - 1

\* a field of the last written line, counted from its end (1 = duration)
FieldFromEnd(k) ==
    SubSeq(written, BarFromEnd(k) + 1,
           IF k = 1 THEN Len(written) - 1 ELSE BarFromEnd(k - 1) - 1)

NumberField(k) ==
    IF FieldFromEnd(k) = <<>> THEN -1 ELSE Number(FieldFromEnd(k), 0)

SentLeft   == NumberField(5)
SentRight  == NumberField(4)
SentVolume == NumberField(3)

\* floor(clamp(peak * 18, 0, 8)) of a peak counted in 1/PeakUnit
ExpectedLevel(peak) ==
    IF peak = 0 THEN 0
    ELSE IF peak * 18 >= 8 * PeakUnit THEN 8
    ELSE CHOOSE k \in 0..8 : k * PeakUnit <= peak * 18 /\ peak * 18 < (k + 1) * PeakUnit

\* C11: in every line written leftLevel and rightLevel are integers in 0..8
\* and volumePercent is an integer in 0..100; a block peak of 0 gives level
\* 0, a peak >= 8/18 gives level 8, and every level is
\* floor(clamp(peak * 18, 0, 8)).
C11_ValueRanges ==
    /\ written # <<>> =>
          /\ SentLeft \in 0..8 /\ SentRight \in 0..8
          /\ SentVolume \in 0..100
    /\ audio.pc = "recorded" =>
          /\ audio.l_val = ExpectedLevel(audio.l_peak)
          /\ audio.r_val = ExpectedLevel(audio.r_peak)
          /\ levels = [left |-> audio.l_val, right |-> audio.r_val]

\* a line carried level 8 of a full-scale peak, level 3 and volume 100
C11_Witness ==
    /\ written # <<>>
    /\ SentLeft = 8 /\ SentRight = 3 /\ SentVolume = 100
    /\ audio.l_peak = PeakUnit /\ audio.l_val = 8

\* ------------------------------------------------- start_mirroring
\* ser.read(1): the oldest unread byte, b"" when none came within the timeout
ReadByte(rx) == IF rx = <<>> THEN NoByte ELSE Head(rx)

\* the input buffer that does not give up the byte it delivered
Consume_Peek(rx) == rx

\* the input buffer after ser.read(1)
Consume(rx) == IF rx = <<>> THEN rx ELSE Tail(rx)

\* a test that takes every byte for an acknowledgement
Acknowledged_AnyByte(byte) == byte # NoByte

\* "if ser.read(1) == ACK_BYTE"
Acknowledged(byte) == byte = ACK_BYTE

\* "except Exception ... finally: ser.close()": the function ends
Stopped(m, why) == [m EXCEPT !.pc = "stopped", !.error = why]

\* ser.write(START_BYTE + img.tobytes())
Transmit(m) == [m EXCEPT !.frames = @ + 1, !.wire = Frame]

\* lines 42-53: open the port, empty the input buffer, grab and send the
\* initial frame; a grab that raises ends the function
MirrorStart(capture_ok) ==
    /\ mirror.pc = "idle"
    /\ IF capture_ok
       THEN /\ mirror' = [Transmit(mirror) EXCEPT !.pc = "wait_ack"]
            /\ device' = [device EXCEPT !.rx = <<>>, !.pending = @ + 1]
       ELSE /\ mirror' = Stopped(mirror, "initial capture")
            /\ device' = [device EXCEPT !.rx = <<>>]
    /\ UNCHANGED <<estimator, telemetry, threads, discovery>>

\* lines 55-61: one turn of the loop: read a byte, and on an
\* acknowledgement grab and send a frame; a grab that raises ends the loop
MirrorLoop(capture_ok) ==
    /\ mirror.pc = "wait_ack"
    /\ mirror.frames < MaxFrames
    /\ LET byte == ReadByte(device.rx)
           read == [mirror EXCEPT !.byte = byte,
                                  !.acks = IF byte = ACK_BYTE THEN @ + 1 ELSE @]
       IN  IF ~Acknowledged(byte)
           THEN /\ mirror' = read
                /\ mirror' # mirror
                /\ device' = [device EXCEPT !.rx = Consume(@)]
           ELSE IF capture_ok
           THEN /\ mirror' = Transmit(read)
                /\ device' = [device EXCEPT !.rx = Consume(@), !.pending = @ + 1]
           ELSE /\ mirror' = Stopped(read, "capture")
                /\ device' = [device EXCEPT !.rx = Consume(@)]
    /\ UNCHANGED <<estimator, telemetry, threads, discovery>>

\* the macropad takes a frame off the link
DeviceReceive ==
    /\ device.pending > 0
    /\ device' = [device EXCEPT !.pending = @ - 1, !.received = @ + 1]
    /\ UNCHANGED <<estimator, telemetry, threads, mirror, discovery>>

\* the macropad sends an acknowledgement; a well-behaved one sends at most
\* one for each frame it has received
DeviceAck(well_behaved) ==
    /\ Len(device.rx) < MaxRx
    /\ device.emitted < MaxFrames
    /\ well_behaved => device.emitted < device.received
    /\ device' = [device EXCEPT !.rx = Append(@, ACK_BYTE), !.emitted = @ + 1]
    /\ UNCHANGED <<estimator, telemetry, threads, mirror, discovery>>

\* the macropad sends a byte that is no acknowledgement
DeviceNoise ==
    /\ Len(device.rx) < MaxRx
    /\ mirror.pc = "wait_ack"
    /\ device' = [device EXCEPT !.rx = Append(@, NOISE_BYTE)]
    /\ UNCHANGED <<estimator, telemetry, threads, mirror, discovery>>

\* mirroring against a macropad that may send anything at any time
NextMirror ==
    \/ \E ok \in BOOLEAN : MirrorStart(ok)
    \/ \E ok \in BOOLEAN : MirrorLoop(ok)
    \/ DeviceReceive
    \/ DeviceAck(FALSE)
    \/ DeviceNoise

SpecMirror == Init /\ [][NextMirror]_vars

\* mirroring against a macropad that acknowledges only frames it received
NextMirrorDevice ==
    \/ \E ok \in BOOLEAN : MirrorStart(ok)
    \/ \E ok \in BOOLEAN : MirrorLoop(ok)
    \/ DeviceReceive
    \/ DeviceAck(TRUE)
    \/ DeviceNoise

SpecMirrorDevice == Init /\ [][NextMirrorDevice]_vars

\* -------------------------------------------------------------------- C12
\* C12 as stated: start_mirroring transmits a frame only upon receipt of an
\* acknowledgement byte, one frame per acknowledgement: at every point the
\* number of frames transmitted equals the number of acknowledgement bytes
\* read.
C12_FramesEqualAcks == mirror.frames = mirror.acks

\* C12, amended: after the initial frame that starts the handshake, a frame
\* (start byte 0x02 and the 1024 bytes of the 128x64 1-bit bitmap) is
\* transmitted only in a turn of the loop that read an acknowledgement byte
\* 0x06, one frame per acknowledgement; while the loop waits the number of
\* frames transmitted is the number of acknowledgement bytes read plus one; a
\* read timeout or any other byte causes no transmission.
C12_AckGated ==
    /\ [](mirror.pc = "wait_ack" => mirror.frames = mirror.acks + 1)
    /\ [](mirror.frames > 0 => mirror.wire = [start |-> 2, bitmap |-> 1024])
    /\ [][mirror.pc = "wait_ack" =>
            /\ mirror'.frames \in {mirror.frames, mirror.frames + 1}
            /\ mirror'.frames # mirror.frames =>
                  /\ device.rx # <<>> /\ Head(device.rx) = 6
                  /\ mirror'.byte = 6
                  /\ mirror'.acks = mirror.acks + 1
            /\ (mirror' # mirror /\ mirror'.byte # 6) =>
                  /\ mirror'.frames = mirror.frames
                  /\ device'.pending = device.pending]_vars

\* the loop read two acknowledgements and then a byte that is none: three
\* frames were sent, the initial one and one for each acknowledgement
C12_Witness ==
    /\ mirror.pc = "wait_ack"
    /\ mirror.frames = 3 /\ mirror.acks = 2
    /\ mirror.byte = NOISE_BYTE

\* -------------------------------------------------------------------- C13
\* C13: with a macropad that emits at most one acknowledgement per frame it
\* received and an input buffer without stale bytes, the frames transmitted
\* but not yet acknowledged are never more than one, no frame waits behind
\* another, and a frame is produced only in a step that takes an
\* acknowledgement out of the input buffer.
C13_NoFrameQueuing ==
    /\ [](/\ mirror.frames - device.emitted <= 1
          /\ mirror.frames - mirror.acks <= 1
          /\ device.pending <= 1)
    /\ [][(mirror.pc = "wait_ack" /\ mirror'.frames # mirror.frames) =>
            /\ device.rx # <<>> /\ Head(device.rx) = 6
            /\ device'.rx = Tail(device.rx)]_vars

\* the macropad acknowledged two frames and the third is on its way
C13_Witness ==
    /\ mirror.frames = 3
    /\ device.emitted = 2 /\ device.received = 2 /\ device.pending = 1
    /\ device.rx = <<>>

\* -------------------------------------------------------------------- C14
\* C14: an exception of the screen capture after startup is caught and the
\* mirroring loop keeps running and retries on its next cycle.
C14_KeepsRunning == mirror.error = "capture" => mirror.pc = "wait_ack"

\* ---------------------------------------- the threads, statement by statement
\* a lock that lets everybody in
CanAcquire_NoLock(lock) == TRUE

\* "with lock:" enters when nobody holds the lock
CanAcquire(lock) == lock = Free

\* a handler that leaves the levels as they are
Reset_Keep(lv) == lv

\* the levels the handler of a capture error stores
Reset(lv) == [left |-> 0, right |-> 0]

\* blocks recorded while the threads interleave: loud left, loud right
LevelBlocks == {<<7, PeakUnit>>, <<PeakUnit, 7>>}

\* line 100-107: pick the loopback device and open its recorder; outcome
\* "none": no device, "open": the recorder is open, "raise": opening raised
AudioPick(outcome) ==
    /\ audio.pc = "pick"
    /\ audio' = [audio EXCEPT !.pc = CASE outcome = "none" -> "no_device"
                                       [] outcome = "open" -> "recording"
                                       [] OTHER -> "caught"]
    /\ UNCHANGED <<estimator, telemetry, levels_lock, main_loop, worker_pc>>
    /\ UNCHANGED <<mirroring, discovery>>

\* lines 102-103: time.sleep(2); continue
AudioNoDevice ==
    /\ audio.pc = "no_device"
    /\ audio' = [audio EXCEPT !.pc = "pick"]
    /\ UNCHANGED <<estimator, telemetry, levels_lock, main_loop, worker_pc>>
    /\ UNCHANGED <<mirroring, discovery>>

\* lines 109-117: record a block and compute its two levels
AudioRecord(block) ==
    /\ audio.pc = "recording"
    /\ audio' = Recorded(block)
    /\ UNCHANGED <<estimator, telemetry, levels_lock, main_loop, worker_pc>>
    /\ UNCHANGED <<mirroring, discovery>>

\* recorder.record raises: the recorder is closed, the handler starts
AudioRaise ==
    /\ audio.pc = "recording"
    /\ audio' = [audio EXCEPT !.pc = "caught"]
    /\ UNCHANGED <<estimator, telemetry, levels_lock, main_loop, worker_pc>>
    /\ UNCHANGED <<mirroring, discovery>>

\* lines 119 and 125: "with lock:"
AudioAcquire ==
    /\ audio.pc \in {"recorded", "caught"}
    /\ CanAcquire(levels_lock)
    /\ levels_lock' = "audio"
    /\ audio' = [audio EXCEPT !.pc = IF @ = "recorded" THEN "write_left"
                                     ELSE "reset_left"]
    /\ UNCHANGED <<estimator, telemetry, main_loop, worker_pc>>
    /\ UNCHANGED <<mirroring, discovery>>

\* line 120: levels['left'] = l_val
AudioWriteLeft ==
    /\ audio.pc = "write_left"
    /\ levels' = [levels EXCEPT !.left = audio.l_val]
    /\ audio' = [audio EXCEPT !.pc = "write_right"]
    /\ UNCHANGED <<estimator, vol_queue, last_pct, current_vol, written>>
    /\ UNCHANGED <<levels_lock, main_loop, worker_pc, mirroring, discovery>>

\* line 121: levels['right'] = r_val, and the lock is released
AudioWriteRight ==
    /\ audio.pc = "write_right"
    /\ levels' = [levels EXCEPT !.right = audio.r_val]
    /\ audio' = [audio EXCEPT !.pc = "recording"]
    /\ levels_lock' = Free
    /\ UNCHANGED <<estimator, vol_queue, last_pct, current_vol, written>>
    /\ UNCHANGED <<main_loop, worker_pc, mirroring, discovery>>

\* line 126: levels['left'] = 0
AudioResetLeft ==
    /\ audio.pc = "reset_left"
    /\ levels' = [levels EXCEPT !.left = Reset(levels).left]
    /\ audio' = [audio EXCEPT !.pc = "reset_right"]
    /\ UNCHANGED <<estimator, vol_queue, last_pct, current_vol, written>>
    /\ UNCHANGED <<levels_lock, main_loop, worker_pc, mirroring, discovery>>

\* line 127: levels['right'] = 0, and the lock is released
AudioResetRight ==
    /\ audio.pc = "reset_right"
    /\ levels' = [levels EXCEPT !.right = Reset(levels).right]
    /\ audio' = [audio EXCEPT !.pc = "backoff"]
    /\ levels_lock' = Free
    /\ UNCHANGED <<estimator, vol_queue, last_pct, current_vol, written>>
    /\ UNCHANGED <<main_loop, worker_pc, mirroring, discovery>>

\* line 128: time.sleep(1), then the outer loop picks a device again
AudioBackoff ==
    /\ audio.pc = "backoff"
    /\ audio' = [audio EXCEPT !.pc = "pick"]
    /\ UNCHANGED <<estimator, telemetry, levels_lock, main_loop, worker_pc>>
    /\ UNCHANGED <<mirroring, discovery>>

\* a queue that hands out its newest value
Oldest_Newest(q) == q[Len(q)]

\* vol_queue.get(): the value that was put first
Oldest(q) == Head(q)

\* line 278: one turn of the drain loop takes the oldest pending value
MainGet ==
    /\ main_loop.pc = "drain"
    /\ vol_queue # <<>>
    /\ current_vol' = Oldest(vol_queue)
    /\ vol_queue' = Tail(vol_queue)
    /\ UNCHANGED <<estimator, levels, last_pct, written>>
    /\ UNCHANGED <<threads, mirroring, discovery>>

\* lines 277 and 280: the queue is empty, get_media_info is awaited; several
\* ticks fall into one clock unit, so dt may be 0
MainMedia(dt, env) ==
    /\ main_loop.pc = "drain"
    /\ vol_queue = <<>>
    /\ NextTime(dt) <= Epoch + MainHorizon
    /\ \E r \in {get_media_info(_media_session, _media_last_refresh,
                                _last_timeline, NextTime(dt), env, ret)} :
          Await(NextTime(dt), r)
    /\ main_loop' = [main_loop EXCEPT !.pc = "acquire"]
    /\ UNCHANGED <<telemetry, audio, levels_lock, worker_pc>>
    /\ UNCHANGED <<mirroring, discovery>>

\* line 282: "with levels_lock:"
MainAcquire ==
    /\ main_loop.pc = "acquire"
    /\ CanAcquire(levels_lock)
    /\ levels_lock' = "main"
    /\ main_loop' = [main_loop EXCEPT !.pc = "read_left"]
    /\ UNCHANGED <<estimator, telemetry, audio, worker_pc>>
    /\ UNCHANGED <<mirroring, discovery>>

\* line 283: l = levels['left']
MainReadLeft ==
    /\ main_loop.pc = "read_left"
    /\ main_loop' = [main_loop EXCEPT !.pc = "read_right", !.l = levels.left]
    /\ UNCHANGED <<estimator, telemetry, audio, levels_lock, worker_pc>>
    /\ UNCHANGED <<mirroring, discovery>>

\* line 284: r = levels['right'], and the lock is released
MainReadRight ==
    /\ main_loop.pc = "read_right"
    /\ main_loop' = [main_loop EXCEPT !.pc = "write", !.r = levels.right]
    /\ levels_lock' = Free
    /\ UNCHANGED <<estimator, telemetry, audio, worker_pc>>
    /\ UNCHANGED <<mirroring, discovery>>

\* lines 286-292: build the line, write it, sleep
MainWrite ==
    /\ main_loop.pc = "write"
    /\ written' = Encode(Payload(ret[1], ret[2], main_loop.l, main_loop.r,
                                 current_vol, ret[3], ret[4]))
    /\ main_loop' = [main_loop EXCEPT !.pc = "drain"]
    /\ UNCHANGED <<estimator, levels, vol_queue, last_pct, current_vol>>
    /\ UNCHANGED <<audio, levels_lock, worker_pc, mirroring, discovery>>

\* the steps of the main loop after the queue was drained
MainSteps ==
    \/ \E dt \in 0..MaxDt : \E env \in NoSessionEnvs : MainMedia(dt, env)
    \/ MainAcquire
    \/ MainReadLeft
    \/ MainReadRight
    \/ MainWrite

\* the main loop and the capture thread
NextLevels ==
    \/ MainSteps
    \/ \E outcome \in {"none", "open", "raise"} : AudioPick(outcome)
    \/ AudioNoDevice
    \/ \E block \in LevelBlocks : AudioRecord(block)
    \/ AudioRaise
    \/ AudioAcquire
    \/ AudioWriteLeft
    \/ AudioWriteRight
    \/ AudioResetLeft
    \/ AudioResetRight
    \/ AudioBackoff

SpecLevels == Init /\ [][NextLevels]_vars

\* -------------------------------------------------------------------- C15
\* the pairs a single writer step stores: the initial pair, the pair of the
\* reset, the pair of one block
WrittenTogether ==
    {<<0, 0>>} \cup {<<ExpectedLevel(b[1]), ExpectedLevel(b[2])>> : b \in LevelBlocks}

\* C15: under every interleaving of the capture thread and the main loop
\* the (left, right) pair the main loop read, and the pair in the line it
\* wrote, were stored together by one writer step: one block, the (0, 0) of
\* the reset or the initial (0, 0); left of one block never meets right of
\* another.
C15_ConsistentPair ==
    /\ main_loop.pc \in {"write", "drain"} =>
          <<main_loop.l, main_loop.r>> \in WrittenTogether
    /\ written # <<>> => <<SentLeft, SentRight>> \in WrittenTogether
    /\ levels_lock # "audio" => <<levels.left, levels.right>> \in WrittenTogether

\* the main loop holds the lock between its two reads while the capture
\* thread, with a block of other levels in hand, waits for the lock
C15_Witness ==
    /\ main_loop.pc = "read_right" /\ levels_lock = "main"
    /\ audio.pc = "recorded"
    /\ main_loop.l = 8 /\ levels.right = 3
    /\ audio.l_val = 3 /\ audio.r_val = 8

\* -------------------------------------------------------------------- C17
Disconnected == audio.pc \in {"pick", "no_device", "backoff"}

\* C17: after a capture error the audio thread stores 0 in both levels
\* before it backs off; whenever it waits to rebind or found no loopback
\* device the shared levels are (0, 0); a non-zero level is only ever stored
\* from a block recorded on an open recorder.
C17_ZeroWhileDisconnected ==
    /\ [](Disconnected => levels = [left |-> 0, right |-> 0])
    /\ [][(audio'.pc = "backoff" /\ audio.pc # "backoff") =>
            /\ audio.pc = "reset_right"
            /\ levels' = [left |-> 0, right |-> 0]]_vars
    /\ [][(levels'.left # levels.left /\ levels'.left # 0) =>
            /\ audio.pc = "write_left"
            /\ levels'.left = ExpectedLevel(audio.l_peak)]_vars
    /\ [][(levels'.right # levels.right /\ levels'.right # 0) =>
            /\ audio.pc = "write_right"
            /\ levels'.right = ExpectedLevel(audio.r_peak)]_vars

\* the thread backs off after an error that followed a loud block
C17_Witness ==
    /\ audio.pc = "backoff"
    /\ audio.l_val = 8
    /\ levels = [left |-> 0, right |-> 0]
    /\ written # <<>> /\ SentLeft = 8

\* ------------------------------------------------------ the volume worker
\* lines 79-84: one poll; a new percentage is put into the queue
WorkerPoll(scalar) ==
    /\ worker_pc = "poll"
    /\ worker_pc' = "sleep"
    /\ IF Pct(scalar) # last_pct
       THEN /\ Len(vol_queue) < MaxQueue
            /\ vol_queue' = Append(vol_queue, Pct(scalar))
            /\ last_pct' = Pct(scalar)
       ELSE UNCHANGED <<vol_queue, last_pct>>
    /\ UNCHANGED <<estimator, levels, current_vol, written>>
    /\ UNCHANGED <<audio, levels_lock, main_loop, mirroring, discovery>>

\* lines 85-86: the query raises, "except: pass"
WorkerFail ==
    /\ worker_pc = "poll"
    /\ worker_pc' = "sleep"
    /\ UNCHANGED <<estimator, telemetry, audio, levels_lock, main_loop>>
    /\ UNCHANGED <<mirroring, discovery>>

\* line 88: time.sleep(0.2)
WorkerSleep ==
    /\ worker_pc = "sleep"
    /\ worker_pc' = "poll"
    /\ UNCHANGED <<estimator, telemetry, audio, levels_lock, main_loop>>
    /\ UNCHANGED <<mirroring, discovery>>

\* the main loop and the volume worker
NextVolume ==
    \/ MainGet
    \/ MainSteps
    \/ \E scalar \in Scalars : WorkerPoll(scalar)
    \/ WorkerFail
    \/ WorkerSleep

SpecVolume == Init /\ [][NextVolume]_vars

\* the event loop keeps running the main coroutine: a step of the main loop
\* that stays possible is taken
SpecVolumeFair == SpecVolume /\ WF_vars(MainGet \/ MainSteps)

\* -------------------------------------------------------------------- C16
\* C16: on each tick the main loop takes every pending value out of the
\* queue before it goes on, oldest first; the volume in the tick's line is
\* the last value taken, or the value held before (50 at first) when the
\* queue was empty; once the worker stops producing, the volume sent
\* eventually equals the last value it produced.
C16_DrainKeepsLatest ==
    /\ [][(main_loop.pc = "drain" /\ main_loop'.pc # "drain") =>
            vol_queue = <<>>]_vars
    /\ [][current_vol' # current_vol =>
            /\ main_loop.pc = "drain" /\ vol_queue # <<>>
            /\ current_vol' = vol_queue[1]
            /\ vol_queue' = SubSeq(vol_queue, 2, Len(vol_queue))]_vars
    /\ [][written' # written => SentVolume' = current_vol]_vars
    /\ [](last_pct = -1 => current_vol = 50)
    /\ []((vol_queue = <<>> /\ last_pct # -1) => current_vol = last_pct)
    /\ \A v \in 0..100 :
          <>[](last_pct = v) => <>[](written # <<>> /\ SentVolume = v)

\* a line with volume 7 was sent, 100 was taken out of the queue since, and
\* 0 is pending
C16_Witness ==
    /\ written # <<>> /\ SentVolume = 7
    /\ current_vol = 100
    /\ vol_queue = <<0>> /\ last_pct = 0

\* --------------------------------------------------------------- find_port
\* the ASCII bytes of "MACROPAD_STATION"
MACROPAD_STATION == <<77, 65, 67, 82, 79, 80, 65, 68, 95, 83, 84, 65, 84, 73, 79, 78>>

\* bs.decode(): the text of ASCII bytes, one character per byte; a byte
\* above 127 that starts no valid sequence makes decode raise
Decode(bs) ==
    IF \E i \in 1..Len(bs) : bs[i] > 127
    THEN [raised |-> TRUE, text |-> <<>>]
    ELSE [raised |-> FALSE, text |-> bs]

\* pattern in text
Contains(text, pattern) ==
    \E i \in 0..(Len(text) - Len(pattern)) :
        SubSeq(text, i + 1, i + Len(pattern)) = pattern

\* a test for the bare identifier
Accepts_Exact(text) == text = MACROPAD_STATION

\* '"MACROPAD_STATION" in ...'
Accepts(text) == Contains(text, MACROPAD_STATION)

\* what a port does: fault "open" (serial.Serial raises), "write" (ser.write
\* raises) or "none", and the line it sends back (empty: the 1 s timeout)
Port(fault, reply) == [fault |-> fault, reply |-> reply]

PortKinds ==
    {Port("open", <<>>), Port("write", <<>>),
     Port("none", <<>>),
     Port("none", <<255, 254, 10>>),
     Port("none", SubSeq(MACROPAD_STATION, 1, 15) \o <<10>>),
     Port("none", MACROPAD_STATION \o <<10>>),
     Port("none", <<79, 75, 32>> \o MACROPAD_STATION \o <<32, 118, 50, 13, 10>>)}

\* the lists comports() can return
PortLists == UNION {[1..n -> PortKinds] : n \in 0..MaxPorts}

\* line 233: comports() is enumerated
FindPortStart(ports) ==
    /\ discovery.pc = "idle"
    /\ discovery' = [discovery EXCEPT !.pc = "scan", !.ports = ports, !.i = 1]
    /\ UNCHANGED <<estimator, telemetry, threads, mirroring>>

\* line 235: the next port is opened; if that raises it is skipped
OpenPort ==
    /\ discovery.pc = "scan"
    /\ discovery.i <= Len(discovery.ports)
    /\ discovery' =
         IF discovery.ports[discovery.i].fault = "open"
         THEN [discovery EXCEPT !.i = @ + 1, !.tried = Append(@, discovery.i)]
         ELSE [discovery EXCEPT !.pc = "probe", !.open = @ \cup {discovery.i},
                                !.tried = Append(@, discovery.i)]
    /\ UNCHANGED <<estimator, telemetry, threads, mirroring>>

\* lines 236-242: IDENTIFY is written, the reply read, decoded and tested;
\* leaving the with block closes the port
ProbePort ==
    /\ discovery.pc = "probe"
    /\ LET p == discovery.ports[discovery.i]
           d == Decode(p.reply)
           closed == [discovery EXCEPT !.open = @ \ {discovery.i}]
       IN  discovery' =
             IF p.fault # "write" /\ ~d.raised /\ Accepts(d.text)
             THEN [closed EXCEPT !.pc = "found", !.result = discovery.i]
             ELSE [closed EXCEPT !.pc = "scan", !.i = @ + 1]
    /\ UNCHANGED <<estimator, telemetry, threads, mirroring>>

\* lines 243 and 266-268: no port is left, find_port returns None, main
\* prints "Device not found." and returns
NotFound ==
    /\ discovery.pc = "scan"
    /\ discovery.i > Len(discovery.ports)
    /\ discovery' = [discovery EXCEPT !.pc = "returned", !.result = None]
    /\ UNCHANGED <<estimator, telemetry, threads, mirroring>>

\* line 270: main opens the port find_port returned
OpenFound ==
    /\ discovery.pc = "found"
    /\ discovery' = [discovery EXCEPT !.pc = "running", !.open = {discovery.result}]
    /\ UNCHANGED <<estimator, telemetry, threads, mirroring>>

\* lines 276-292: the telemetry loop runs on the open port
Running(dt, env) ==
    /\ discovery.pc = "running"
    /\ MainTick(dt, env)

NextDiscovery ==
    \/ \E ports \in PortLists : FindPortStart(ports)
    \/ OpenPort
    \/ ProbePort
    \/ NotFound
    \/ OpenFound
    \/ \E dt \in 1..MaxDt : \E env \in NoSessionEnvs : Running(dt, env)

SpecDiscovery == Init /\ [][NextDiscovery]_vars

\* -------------------------------------------------------------------- C18
\* port k opens, takes the request, and its reply decodes to a text that
\* contains "MACROPAD_STATION"
Identifies(k) ==
    LET p == discovery.ports[k]
    IN  /\ p.fault = "none"
        /\ \A i \in 1..Len(p.reply) : p.reply[i] < 128
        /\ \E i \in 1..Len(p.reply) :
              /\ i + 15 <= Len(p.reply)
              /\ \A j \in 1..16 : p.reply[i + j - 1] = MACROPAD_STATION[j]

\* C18: find_port tries the ports in enumeration order, each at most once,
\* and returns the first one whose reply to IDENTIFY contains
\* "MACROPAD_STATION"; a port whose reply does not contain it, or that
\* raises, is closed and skipped; if none matches it returns None and main
\* writes no telemetry line and returns.
C18_Discovery ==
    /\ \A j \in 1..Len(discovery.tried) : discovery.tried[j] = j
    /\ discovery.pc = "scan" =>
          /\ Len(discovery.tried) = discovery.i - 1
          /\ \A k \in 1..Len(discovery.tried) : ~Identifies(k)
          /\ discovery.open = {}
    /\ discovery.pc = "probe" => discovery.open = {discovery.i}
    /\ discovery.pc \in {"found", "running"} =>
          /\ Identifies(discovery.result)
          /\ \A k \in 1..(discovery.result - 1) : ~Identifies(k)
          /\ Len(discovery.tried) = discovery.result
          /\ discovery.open = IF discovery.pc = "found" THEN {}
                              ELSE {discovery.result}
    /\ discovery.pc = "returned" =>
          /\ discovery.result = None
          /\ \A k \in 1..Len(discovery.ports) : ~Identifies(k)
          /\ Len(discovery.tried) = Len(discovery.ports)
          /\ discovery.open = {}
    /\ written # <<>> => discovery.pc = "running"

\* the second of three ports is returned after a port that raised; its reply
\* holds the identifier inside a longer line; the third, which would match
\* too, is never tried; a line was written
C18_Witness ==
    /\ discovery.pc = "running" /\ discovery.result = 2
    /\ Len(discovery.ports) = 3
    /\ discovery.ports[1].fault = "open"
    /\ Len(discovery.ports[2].reply) > 17
    /\ Identifies(3)
    /\ discovery.tried = <<1, 2>>
    /\ written # <<>>

\* three ports were tried, none matched, main returned without a line
C18_WitnessNone ==
    /\ discovery.pc = "returned"
    /\ discovery.tried = <<1, 2, 3>>
    /\ written = <<>>

\* -------------------------------------------------------- the time labels
\* a paused timeline that stands at s seconds of a track of d seconds
Standing(s, d) ==
    [InitTimeline EXCEPT !.base_position = s, !.duration = d]

\* get_media_info is called once, without a session, on a timeline that
\* stands anywhere: it returns the two labels of lines 209-212
InitLabel ==
    /\ \E s \in 0..MaxSeconds :
         \E d \in {s, 3599, MaxSeconds - s} :
            _last_timeline = Standing(s, d)
    /\ InitButTimeline

FormatLabels ==
    /\ ~call.made
    /\ \E env \in NoSessionEnvs : Call(1, env)

SpecLabel == InitLabel /\ [][FormatLabels]_vars

\* -------------------------------------------------------------------- C19
DigitValue(c) == CHOOSE k \in 0..9 : DigitChar[k + 1] = c

RECURSIVE Decimal(_)
\* the number a sequence of digit characters spells
Decimal(ds) ==
    IF ds = <<>> THEN 0
    ELSE 10 * Decimal(SubSeq(ds, 1, Len(ds) - 1)) + DigitValue(ds[Len(ds)])

\* label is the decimal of s div 60, a colon, and s mod 60 in two digits
IsLabelOf(label, s) ==
    \E c \in 2..(Len(label) - 2) :
        LET minutes == SubSeq(label, 1, c - 1)
            seconds == SubSeq(label, c + 1, Len(label))
        IN  /\ label[c] = ":"
            /\ \A i \in 1..Len(label) :
                  i # c => \E k \in 1..10 : DigitChar[k] = label[i]
            /\ Len(minutes) > 1 => minutes[1] # "0"
            /\ Decimal(minutes) = s \div 60
            /\ Len(seconds) = 2
            /\ Decimal(seconds) = s % 60

\* C19: for every non-negative whole number of seconds s the label is the
\* decimal of s div 60, a colon, and s mod 60 padded to two digits (0 is
\* "0:00", 65 "1:05", 125 "2:05", 3599 "59:59"); elapsed and duration are
\* formatted by the same rule.
C19_TimeLabel ==
    call.made =>
        /\ IsLabelOf(ret[3], _last_timeline.base_position)
        /\ IsLabelOf(ret[4], _last_timeline.duration)
        /\ _last_timeline.base_position = 0 => ret[3] = <<"0", ":", "0", "0">>
        /\ _last_timeline.base_position = 65 => ret[3] = <<"1", ":", "0", "5">>
        /\ _last_timeline.base_position = 125 => ret[3] = <<"2", ":", "0", "5">>
        /\ _last_timeline.duration = 3599 => ret[4] = <<"5", "9", ":", "5", "9">>

\* 125 s of a track of 3599 s were formatted
C19_Witness ==
    /\ call.made
    /\ _last_timeline.base_position = 125 /\ _last_timeline.duration = 3599
    /\ ret[3] = <<"2", ":", "0", "5">>
    /\ ret[4] = <<"5", "9", ":", "5", "9">>

\* -------------------------------------------------------------------- C20
\* C20: right after a timeline refresh in which the session reported a
\* position, the elapsed value the call returns is within 2 seconds of the
\* reported real position, whatever was absorbed before.
C20_BoundedEveryPosition ==
    PositionReported => Abs(call.elapsed - Sec(call.reported)) <= DRIFT_SECONDS

\* The same for the positions the code takes, those that are not exactly
\* zero: there the bound holds.
C20_BoundedObtained ==
    PositionObtained => Abs(call.elapsed - Sec(call.reported)) <= DRIFT_SECONDS

====
